---------------------------- MODULE Spec2Model ----------------------------
(***************************************************************************)
(* The search-session controller of frontend/src/App.js: the App          *)
(* component's state hooks, handleSearch, loadSearchHistory, clearHistory  *)
(* and the two external collaborators it talks to (the search endpoint and *)
(* the history store), as a state machine, with the helpers of the result  *)
(* cards (formatAuthors, truncateAbstract) as operators.                   *)
(*                                                                         *)
(* Strings are sequences of one-character strings, so that trim() and      *)
(* parseInt() are computed character by character.                         *)
(***************************************************************************)
EXTENDS Integers, Sequences, FiniteSets

VARIABLES
    query,          \* useState("")    App.js:10
    author,         \* useState("")    App.js:11
    venue,          \* useState("")    App.js:12
    yearFrom,       \* useState("")    App.js:13
    yearTo,         \* useState("")    App.js:14
    searchResults,  \* useState([])    App.js:15
    loading,        \* useState(false) App.js:16
    searchHistory,  \* useState([])    App.js:17
    totalCount,     \* useState(0)     App.js:19
    queryInfo,      \* useState(null)  App.js:20
    alerts,         \* number of alert() dialogs raised so far (App.js:75)
    submitsLeft,    \* submit events the user may still dispatch
    issued,         \* number of axios.post calls made so far (App.js:68)
    requests,       \* search calls awaiting their continuation (App.js:68)
    histIssued,     \* number of axios.get calls made so far (App.js:46)
    fetches,        \* history fetches awaiting their continuation (App.js:46)
    clearsLeft,     \* clicks on Clear the user may still make
    deletes,        \* delete-all calls awaiting their continuation (App.js:83)
    store           \* the external history store: request ids, newest first

vars == <<query, author, venue, yearFrom, yearTo, searchResults, loading,
          searchHistory, totalCount, queryInfo, alerts, submitsLeft, issued,
          requests, histIssued, fetches, clearsLeft, deletes, store>>

draft == <<query, author, venue, yearFrom, yearTo>>
display == <<searchResults, totalCount, queryInfo>>
clearing == <<clearsLeft, deletes>>

-----------------------------------------------------------------------------
(* Bounds of the model. *)

\* submit events dispatched in one behaviour of Spec and of SpecHistory
MaxSubmits == 2
\* submit events dispatched in one behaviour of SpecQuery, SpecForm and
\* SpecRender
MaxQuerySubmits == 1
\* clicks on Clear made in one behaviour of SpecHistory
MaxClears == 1

-----------------------------------------------------------------------------
(* JavaScript values, each tagged with its type: null, NaN, a number, a     *)
(* string (a sequence of characters).                                      *)

Null == [type |-> "null"]
NaN == [type |-> "NaN"]
Num(n) == [type |-> "number", value |-> n]
Str(s) == [type |-> "string", value |-> s]

Whitespace == {" "}
DigitChars == {"0", "1", "2", "3", "4", "5", "6", "7", "8", "9"}

DigitVal(c) ==
    CASE c = "0" -> 0 [] c = "1" -> 1 [] c = "2" -> 2 [] c = "3" -> 3
      [] c = "4" -> 4 [] c = "5" -> 5 [] c = "6" -> 6 [] c = "7" -> 7
      [] c = "8" -> 8 [] c = "9" -> 9

\* String.prototype.trim: strip leading, then trailing, whitespace.
RECURSIVE TrimStart(_)
TrimStart(s) ==
    IF s # <<>> /\ Head(s) \in Whitespace THEN TrimStart(Tail(s)) ELSE s

RECURSIVE TrimEnd(_)
TrimEnd(s) ==
    IF s # <<>> /\ s[Len(s)] \in Whitespace
    THEN TrimEnd(SubSeq(s, 1, Len(s) - 1))
    ELSE s

Trim(s) == TrimEnd(TrimStart(s))

\* The longest prefix of s made of decimal digits.
RECURSIVE DigitPrefix(_)
DigitPrefix(s) ==
    IF s # <<>> /\ Head(s) \in DigitChars
    THEN <<Head(s)>> \o DigitPrefix(Tail(s))
    ELSE <<>>

RECURSIVE DecimalValue(_)
DecimalValue(ds) ==
    IF ds = <<>> THEN 0
    ELSE 10 * DecimalValue(SubSeq(ds, 1, Len(ds) - 1)) + DigitVal(ds[Len(ds)])

\* parseInt(string) with the default radix: leading whitespace is skipped, an
\* optional sign is read, then the longest run of digits; no digit gives NaN.
parseInt(s) ==
    LET t == TrimStart(s)
        neg == t # <<>> /\ Head(t) = "-"
        u == IF t # <<>> /\ Head(t) \in {"-", "+"} THEN Tail(t) ELSE t
        ds == DigitPrefix(u)
    IN  IF ds = <<>> THEN NaN
        ELSE IF neg THEN Num(0 - DecimalValue(ds)) ELSE Num(DecimalValue(ds))

-----------------------------------------------------------------------------
(* The values a form field can hold (value/onChange, App.js:149-219). *)

QueryInputs == {<<>>, <<" ">>, <<" ", "a", " ">>}
AuthorInputs == {<<>>, <<" ">>, <<"b", " ">>}
VenueInputs == {<<>>, <<" ">>, <<" ", "c">>}
YearInputs == {<<>>, <<"1">>, <<"2">>, <<"x">>}

-----------------------------------------------------------------------------
(* handleSearch, App.js:53-79. *)

\* Mutant of passesValidation: the test made on the untrimmed text.
passesValidationUntrimmed == query # <<>>

\* if (!query.trim()) return;   App.js:55
passesValidation == Trim(query) # <<>>

\* Mutant of OrNull: the "|| null" left out.
OrNullKeepsEmpty(s) == Str(s)

\* s || null, for a string s: the empty string is falsy.
OrNull(s) == IF s # <<>> THEN Str(s) ELSE Null

\* const searchData = {...}   App.js:59-66
searchData ==
    [query     |-> Str(Trim(query)),
     author    |-> OrNull(Trim(author)),
     venue     |-> OrNull(Trim(venue)),
     year_from |-> IF yearFrom # <<>> THEN parseInt(yearFrom) ELSE Null,
     year_to   |-> IF yearTo # <<>> THEN parseInt(yearTo) ELSE Null,
     limit     |-> Num(20)]

\* axios.post serialises the body with JSON.stringify, which writes NaN as null.
toJSON(data) ==
    [f \in DOMAIN data |-> IF data[f] = NaN THEN Null ELSE data[f]]

\* The call in flight made by the n-th axios.post, carrying `body`.
SearchCall(n, body) == [id |-> n, stage |-> "sent", body |-> body]

\* The call in flight made by the n-th axios.get.
HistoryCall(n) == [id |-> n, stage |-> "sent", body |-> <<>>]

\* Mutant of handleSearch: a new submit aborts the calls still in flight.
handleSearchAborting ==
    /\ submitsLeft > 0
    /\ submitsLeft' = submitsLeft - 1
    /\ IF ~passesValidation
       THEN UNCHANGED <<loading, issued, requests>>
       ELSE /\ loading' = TRUE
            /\ issued' = issued + 1
            /\ requests' = {SearchCall(issued + 1, toJSON(searchData))}
    /\ UNCHANGED <<draft, display, searchHistory, alerts, histIssued,
                   fetches, store, clearing>>

\* handleSearch returning while a history fetch is in flight.
handleSearchAfterHistory ==
    /\ submitsLeft > 0
    /\ submitsLeft' = submitsLeft - 1
    /\ IF ~passesValidation \/ fetches # {}
       THEN UNCHANGED <<loading, issued, requests>>
       ELSE /\ loading' = TRUE
            /\ issued' = issued + 1
            /\ requests' = requests \cup {SearchCall(issued + 1, toJSON(searchData))}
    /\ UNCHANGED <<draft, display, searchHistory, alerts, histIssued,
                   fetches, store, clearing>>

\* handleSearch resetting the display when it sends a request.
handleSearchResetting ==
    /\ submitsLeft > 0
    /\ submitsLeft' = submitsLeft - 1
    /\ IF ~passesValidation
       THEN UNCHANGED <<loading, issued, requests, display>>
       ELSE /\ loading' = TRUE
            /\ issued' = issued + 1
            /\ requests' = requests \cup {SearchCall(issued + 1, toJSON(searchData))}
            /\ searchResults' = <<>>
            /\ totalCount' = 0
            /\ queryInfo' = Null
    /\ UNCHANGED <<draft, searchHistory, alerts, histIssued,
                   fetches, store, clearing>>

\* handleSearch up to its await (App.js:53-68).
handleSearch ==
    /\ submitsLeft > 0
    /\ submitsLeft' = submitsLeft - 1
    /\ IF ~passesValidation
       THEN UNCHANGED <<loading, issued, requests>>
       ELSE /\ loading' = TRUE
            /\ issued' = issued + 1
            /\ requests' = requests \cup {SearchCall(issued + 1, toJSON(searchData))}
    /\ UNCHANGED <<draft, display, searchHistory, alerts, histIssued,
                   fetches, store, clearing>>

\* The result set the search endpoint returns for its n-th request: the
\* endpoint's answers are told apart by the request they answer.
ResultSet(n) ==
    [papers      |-> <<2 * n, 2 * n - 1>>,
     total_count |-> 10 + n,
     query_info  |-> [type |-> "object", request |-> n]]

\* The search endpoint takes a request: it answers it, recording the search in
\* the history store, or the call fails (transport or server error), or it
\* answers 2xx with a body that parses to null ("empty").
SearchEndpoint(r) ==
    /\ r \in requests /\ r.stage = "sent"
    /\ \/ /\ requests' = (requests \ {r}) \cup
                           {[r EXCEPT !.stage = "ok", !.body = ResultSet(r.id)]}
          /\ store' = <<r.id>> \o store
       \/ /\ requests' = (requests \ {r}) \cup
                           {[r EXCEPT !.stage = "error", !.body = Null]}
          /\ store' = store
       \/ /\ requests' = (requests \ {r}) \cup
                           {[r EXCEPT !.stage = "empty", !.body = Null]}
          /\ store' = store
    /\ UNCHANGED <<draft, display, loading, searchHistory, alerts, submitsLeft,
                   issued, histIssued, fetches, clearing>>

\* loadSearchHistory up to its await (App.js:44-46): the n-th axios.get.
loadSearchHistory ==
    /\ histIssued' = histIssued + 1
    /\ fetches' = fetches \cup {HistoryCall(histIssued + 1)}

\* Mutant of searchFulfilled: the history refresh of App.js:72 left out.
searchFulfilledNoRefresh(r) ==
    /\ r \in requests /\ r.stage = "ok"
    /\ requests' = requests \ {r}
    /\ searchResults' = r.body.papers
    /\ totalCount' = r.body.total_count
    /\ queryInfo' = r.body.query_info
    /\ loading' = FALSE
    /\ UNCHANGED <<draft, searchHistory, alerts, submitsLeft, issued,
                   histIssued, fetches, store, clearing>>

\* handleSearch after its await, the call fulfilled (App.js:69-72, 77).
searchFulfilled(r) ==
    /\ r \in requests /\ r.stage = "ok"
    /\ requests' = requests \ {r}
    /\ searchResults' = r.body.papers
    /\ totalCount' = r.body.total_count
    /\ queryInfo' = r.body.query_info
    /\ loadSearchHistory
    /\ loading' = FALSE
    /\ UNCHANGED <<draft, searchHistory, alerts, submitsLeft, issued, store, clearing>>

\* Mutant of searchRejected: the failure is logged and not shown (no alert).
searchRejectedSilent(r) ==
    /\ r \in requests /\ r.stage = "error"
    /\ requests' = requests \ {r}
    /\ loading' = FALSE
    /\ UNCHANGED <<draft, display, searchHistory, alerts, submitsLeft, issued,
                   histIssued, fetches, store, clearing>>

\* handleSearch without its finally block on the rejected path.
searchRejectedStillLoading(r) ==
    /\ r \in requests /\ r.stage = "error"
    /\ requests' = requests \ {r}
    /\ alerts' = alerts + 1
    /\ UNCHANGED <<draft, display, loading, searchHistory, submitsLeft, issued,
                   histIssued, fetches, store, clearing>>

\* handleSearch after its await, the call rejected (App.js:73-77).
searchRejected(r) ==
    /\ r \in requests /\ r.stage = "error"
    /\ requests' = requests \ {r}
    /\ alerts' = alerts + 1
    /\ loading' = FALSE
    /\ UNCHANGED <<draft, display, searchHistory, submitsLeft, issued, histIssued,
                   fetches, store, clearing>>

\* handleSearch after its await storing an empty list before it reads the
\* fields of a response without data.
searchUnreadableClearing(r) ==
    /\ r \in requests /\ r.stage = "empty"
    /\ requests' = requests \ {r}
    /\ searchResults' = <<>>
    /\ alerts' = alerts + 1
    /\ loading' = FALSE
    /\ UNCHANGED <<draft, totalCount, queryInfo, searchHistory, submitsLeft,
                   issued, histIssued, fetches, store, clearing>>

\* handleSearch after its await, fulfilled with a response whose data is null
\* (App.js:69, 73-78): reading response.data.papers throws before any setter
\* has run, and the catch and finally blocks follow.
searchUnreadable(r) ==
    /\ r \in requests /\ r.stage = "empty"
    /\ requests' = requests \ {r}
    /\ alerts' = alerts + 1
    /\ loading' = FALSE
    /\ UNCHANGED <<draft, display, searchHistory, submitsLeft, issued, histIssued,
                   fetches, store, clearing>>

-----------------------------------------------------------------------------
(* loadSearchHistory, App.js:44-51. *)

\* The history store takes a fetch: it answers with its contents, or the call
\* fails.
HistoryStoreGet(f) ==
    /\ f \in fetches /\ f.stage = "sent"
    /\ \E answer \in {[f EXCEPT !.stage = "ok", !.body = store],
                      [f EXCEPT !.stage = "error"]} :
          fetches' = (fetches \ {f}) \cup {answer}
    /\ UNCHANGED <<draft, display, loading, searchHistory, alerts, submitsLeft,
                   issued, requests, histIssued, store, clearing>>

\* loadSearchHistory after its await, fulfilled (App.js:47).
historyFulfilled(f) ==
    /\ f \in fetches /\ f.stage = "ok"
    /\ fetches' = fetches \ {f}
    /\ searchHistory' = f.body
    /\ UNCHANGED <<draft, display, loading, alerts, submitsLeft, issued, requests,
                   histIssued, store, clearing>>

\* loadSearchHistory with a catch block that empties the cache.
historyRejectedClearing(f) ==
    /\ f \in fetches /\ f.stage = "error"
    /\ fetches' = fetches \ {f}
    /\ searchHistory' = <<>>
    /\ UNCHANGED <<draft, display, loading, alerts, submitsLeft, issued, requests,
                   histIssued, store, clearing>>

\* loadSearchHistory after its await, rejected (App.js:48-50).
historyRejected(f) ==
    /\ f \in fetches /\ f.stage = "error"
    /\ fetches' = fetches \ {f}
    /\ UNCHANGED <<draft, display, loading, searchHistory, alerts, submitsLeft,
                   issued, requests, histIssued, store, clearing>>

-----------------------------------------------------------------------------
(* clearHistory, App.js:81-90.  The Clear button is rendered only while   *)
(* the cached history is not empty (App.js:357-365).                       *)

\* The call in flight made by axios.delete.
DeleteCall(n) == [id |-> n, stage |-> "sent"]

\* clearHistory up to its first await (App.js:81-83).
clearHistory ==
    /\ searchHistory # <<>>
    /\ clearsLeft > 0
    /\ clearsLeft' = clearsLeft - 1
    /\ deletes' = deletes \cup {DeleteCall(clearsLeft)}
    /\ UNCHANGED <<draft, display, loading, searchHistory, alerts, submitsLeft,
                   issued, requests, histIssued, fetches, store>>

\* The history store takes a delete-all: it empties itself and acknowledges,
\* or the call fails and the store is as it was.
HistoryStoreDelete(d) ==
    /\ d \in deletes /\ d.stage = "sent"
    /\ \/ /\ deletes' = (deletes \ {d}) \cup {[d EXCEPT !.stage = "ok"]}
          /\ store' = <<>>
       \/ /\ deletes' = (deletes \ {d}) \cup {[d EXCEPT !.stage = "error"]}
          /\ store' = store
    /\ UNCHANGED <<draft, display, loading, searchHistory, alerts, submitsLeft,
                   issued, requests, histIssued, fetches, clearsLeft>>

\* clearHistory after its first await, the delete acknowledged (App.js:84-86):
\* the cache is emptied and loadSearchHistory() called; nothing follows the
\* second await.
clearFulfilled(d) ==
    /\ d \in deletes /\ d.stage = "ok"
    /\ deletes' = deletes \ {d}
    /\ searchHistory' = <<>>
    /\ loadSearchHistory
    /\ UNCHANGED <<draft, display, loading, alerts, submitsLeft, issued,
                   requests, clearsLeft, store>>

\* clearHistory after its first await, the delete rejected (App.js:87-89).
clearRejected(d) ==
    /\ d \in deletes /\ d.stage = "error"
    /\ deletes' = deletes \ {d}
    /\ UNCHANGED <<draft, display, loading, searchHistory, alerts, submitsLeft,
                   issued, requests, histIssued, fetches, clearsLeft, store>>

-----------------------------------------------------------------------------
(* The helpers of the result cards, App.js:92-102, and the papers a search *)
(* response may carry.  A paper is a record of the fields the helpers      *)
(* read; a field the response leaves out is Null (undefined).              *)

Arr(items) == [type |-> "array", items |-> items]

\* Array.prototype.slice and String.prototype.substring from 0-based start
\* (inclusive) to end (exclusive), the end clamped to the length.
slice(items, start, end) ==
    SubSeq(items, start + 1, IF end > Len(items) THEN Len(items) ELSE end)

substring(s, start, end) ==
    SubSeq(s, start + 1, IF end > Len(s) THEN Len(s) ELSE end)

\* Array.prototype.join of an array of strings.
RECURSIVE join(_, _)
join(items, sep) ==
    IF items = <<>> THEN <<>>
    ELSE IF Len(items) = 1 THEN items[1].value
    ELSE items[1].value \o sep \o join(Tail(items), sep)

\* The string literals of formatAuthors and truncateAbstract.
UnknownAuthors ==
    <<"U", "n", "k", "n", "o", "w", "n", " ", "a", "u", "t", "h", "o", "r", "s">>
AndSep == <<" ", "a", "n", "d", " ">>
CommaSep == <<",", " ">>
EtAl == <<" ", "e", "t", " ", "a", "l", ".">>
Ellipsis == <<".", ".", ".">>

\* formatAuthors with slice(0, 3) in its last line.
formatAuthorsFirstThree(authors) ==
    IF authors = Null \/ Len(authors.items) = 0 THEN Str(UnknownAuthors)
    ELSE IF Len(authors.items) = 1 THEN authors.items[1]
    ELSE IF Len(authors.items) = 2 THEN Str(join(authors.items, AndSep))
    ELSE Str(join(slice(authors.items, 0, 3), CommaSep) \o EtAl)

\* formatAuthors, App.js:92-97.
formatAuthors(authors) ==
    IF authors = Null \/ Len(authors.items) = 0 THEN Str(UnknownAuthors)
    ELSE IF Len(authors.items) = 1 THEN authors.items[1]
    ELSE IF Len(authors.items) = 2 THEN Str(join(authors.items, AndSep))
    ELSE Str(join(slice(authors.items, 0, 2), CommaSep) \o EtAl)

\* The default of truncateAbstract's second parameter (App.js:99).
DefaultMaxLength == 300

\* !abstract: undefined and the empty string are falsy.
IsFalsy(v) == v = Null \/ (v.type = "string" /\ v.value = <<>>)

\* truncateAbstract comparing with < in its first line.
truncateAbstractStrict(abstract, maxLength) ==
    IF IsFalsy(abstract) \/ Len(abstract.value) < maxLength THEN abstract
    ELSE Str(substring(abstract.value, 0, maxLength) \o Ellipsis)

\* truncateAbstract without the length test in its first line.
truncateAbstractAlways(abstract, maxLength) ==
    IF IsFalsy(abstract) THEN abstract
    ELSE Str(substring(abstract.value, 0, maxLength) \o Ellipsis)

\* truncateAbstract, App.js:99-102.
truncateAbstract(abstract, maxLength) ==
    IF IsFalsy(abstract) \/ Len(abstract.value) <= maxLength THEN abstract
    ELSE Str(substring(abstract.value, 0, maxLength) \o Ellipsis)

\* Author lists a paper may carry: none, empty, and one to four names.
Ann == Str(<<"A", "n", "n">>)
Bo == Str(<<"B", "o">>)
Cy == Str(<<"C", "y">>)
Di == Str(<<"D", "i">>)
AuthorsInputs ==
    <<Null, Arr(<<>>), Arr(<<Ann>>), Arr(<<Ann, Bo>>), Arr(<<Ann, Bo, Cy>>),
      Arr(<<Ann, Bo, Cy, Di>>), Arr(<<Bo, Ann>>)>>

\* Abstracts a paper may carry: none, empty, short, of exactly the default
\* maximum, one character more, longer, and a long run of full stops.
Letters(n) == [i \in 1..n |-> IF i % 3 = 0 THEN "x" ELSE IF i % 3 = 1 THEN "y" ELSE "z"]
Stops(n) == [i \in 1..n |-> "."]
AbstractInputs ==
    <<Null, Str(<<>>), Str(Letters(2)), Str(Letters(DefaultMaxLength)),
      Str(Letters(DefaultMaxLength + 1)), Str(Letters(DefaultMaxLength + 4)),
      Str(Stops(DefaultMaxLength + 2))>>

\* The papers a response may carry.
PaperInputs ==
    {[id |-> k, authors |-> AuthorsInputs[k], abstract |-> AbstractInputs[k]] :
        k \in 1..7}

\* The search endpoint answering with one paper, failing, or answering null.
PaperEndpoint(r) ==
    /\ r \in requests /\ r.stage = "sent"
    /\ \/ /\ \E paper \in PaperInputs :
                requests' = (requests \ {r}) \cup
                    {[r EXCEPT !.stage = "ok",
                               !.body = [ResultSet(r.id) EXCEPT !.papers = <<paper>>]]}
          /\ store' = <<r.id>> \o store
       \/ /\ requests' = (requests \ {r}) \cup
                           {[r EXCEPT !.stage = "error", !.body = Null]}
          /\ store' = store
       \/ /\ requests' = (requests \ {r}) \cup
                           {[r EXCEPT !.stage = "empty", !.body = Null]}
          /\ store' = store
    /\ UNCHANGED <<draft, display, loading, searchHistory, alerts, submitsLeft,
                   issued, histIssued, fetches, clearing>>

\* What a result card shows of a paper (App.js:272, 289-291).
Card(paper) ==
    [authors  |-> formatAuthors(paper.authors),
     abstract |-> IF IsFalsy(paper.abstract) THEN Null
                  ELSE truncateAbstract(paper.abstract, DefaultMaxLength)]

\* The result cards on screen (App.js:250-252).
Cards == [i \in DOMAIN searchResults |-> Card(searchResults[i])]

-----------------------------------------------------------------------------
(* The form fields' onChange handlers, App.js:150, 188, 197, 206, 217. *)

setQuery(v) ==
    /\ v # query
    /\ query' = v
    /\ UNCHANGED <<author, venue, yearFrom, yearTo, display, loading,
                   searchHistory, alerts, submitsLeft, issued, requests,
                   histIssued, fetches, store, clearing>>

setAuthor(v) ==
    /\ v # author
    /\ author' = v
    /\ UNCHANGED <<query, venue, yearFrom, yearTo, display, loading,
                   searchHistory, alerts, submitsLeft, issued, requests,
                   histIssued, fetches, store, clearing>>

setVenue(v) ==
    /\ v # venue
    /\ venue' = v
    /\ UNCHANGED <<query, author, yearFrom, yearTo, display, loading,
                   searchHistory, alerts, submitsLeft, issued, requests,
                   histIssued, fetches, store, clearing>>

setYearFrom(v) ==
    /\ v # yearFrom
    /\ yearFrom' = v
    /\ UNCHANGED <<query, author, venue, yearTo, display, loading,
                   searchHistory, alerts, submitsLeft, issued, requests,
                   histIssued, fetches, store, clearing>>

setYearTo(v) ==
    /\ v # yearTo
    /\ yearTo' = v
    /\ UNCHANGED <<query, author, venue, yearFrom, display, loading,
                   searchHistory, alerts, submitsLeft, issued, requests,
                   histIssued, fetches, store, clearing>>

-----------------------------------------------------------------------------
(* The component once mounted (App.js:9-31): the state hooks at their     *)
(* initial values and the mount effect's loadSearchHistory() in flight.    *)

Init ==
    /\ query = <<>>
    /\ author = <<>>
    /\ venue = <<>>
    /\ yearFrom = <<>>
    /\ yearTo = <<>>
    /\ searchResults = <<>>
    /\ loading = FALSE
    /\ searchHistory = <<>>
    /\ totalCount = 0
    /\ queryInfo = Null
    /\ alerts = 0
    /\ submitsLeft = MaxSubmits
    /\ clearsLeft = 0
    /\ deletes = {}
    /\ issued = 0
    /\ requests = {}
    /\ histIssued = 1
    /\ fetches = {HistoryCall(1)}
    /\ store = <<0>>

Next ==
    \/ \E v \in QueryInputs : setQuery(v)
    \/ handleSearch
    \/ \E r \in requests : SearchEndpoint(r)
    \/ \E r \in requests : searchFulfilled(r)
    \/ \E r \in requests : searchRejected(r)
    \/ \E r \in requests : searchUnreadable(r)
    \/ \E f \in fetches : HistoryStoreGet(f)
    \/ \E f \in fetches : historyFulfilled(f)
    \/ \E f \in fetches : historyRejected(f)

\* The advanced-search panel is closed when the component mounts
\* (showAdvanced, App.js:18): in Spec the user leaves it closed and edits the
\* query field only.
Spec == Init /\ [][Next]_vars

-----------------------------------------------------------------------------
(* The form with its advanced-search panel open: the user edits any field  *)
(* and submits.                                                            *)

InitForm ==
    /\ query = <<>>
    /\ author = <<>>
    /\ venue = <<>>
    /\ yearFrom = <<>>
    /\ yearTo = <<>>
    /\ searchResults = <<>>
    /\ loading = FALSE
    /\ searchHistory = <<>>
    /\ totalCount = 0
    /\ queryInfo = Null
    /\ alerts = 0
    /\ submitsLeft = MaxQuerySubmits
    /\ clearsLeft = 0
    /\ deletes = {}
    /\ issued = 0
    /\ requests = {}
    /\ histIssued = 1
    /\ fetches = {HistoryCall(1)}
    /\ store = <<0>>

NextForm ==
    \/ \E v \in QueryInputs : setQuery(v)
    \/ \E v \in AuthorInputs : setAuthor(v)
    \/ \E v \in VenueInputs : setVenue(v)
    \/ \E v \in YearInputs : setYearFrom(v)
    \/ \E v \in YearInputs : setYearTo(v)
    \/ handleSearch
    \/ \E r \in requests : SearchEndpoint(r)
    \/ \E r \in requests : searchFulfilled(r)
    \/ \E r \in requests : searchRejected(r)
    \/ \E r \in requests : searchUnreadable(r)
    \/ \E f \in fetches : HistoryStoreGet(f)
    \/ \E f \in fetches : historyFulfilled(f)
    \/ \E f \in fetches : historyRejected(f)

SpecForm == InitForm /\ [][NextForm]_vars

-----------------------------------------------------------------------------
(* The query builder on its own: the user has filled the form in (every   *)
(* draft of the input sets is reachable in SpecForm), and then only        *)
(* submits it.                                                             *)

InitQuery ==
    /\ query \in QueryInputs
    /\ author \in AuthorInputs
    /\ venue \in VenueInputs
    /\ yearFrom \in YearInputs
    /\ yearTo \in YearInputs
    /\ searchResults = <<>>
    /\ loading = FALSE
    /\ searchHistory = <<>>
    /\ totalCount = 0
    /\ queryInfo = Null
    /\ alerts = 0
    /\ submitsLeft = MaxQuerySubmits
    /\ clearsLeft = 0
    /\ deletes = {}
    /\ issued = 0
    /\ requests = {}
    /\ histIssued = 1
    /\ fetches = {HistoryCall(1)}
    /\ store = <<0>>

NextQuery ==
    \/ handleSearch
    \/ \E r \in requests : SearchEndpoint(r)
    \/ \E r \in requests : searchFulfilled(r)
    \/ \E r \in requests : searchRejected(r)
    \/ \E r \in requests : searchUnreadable(r)
    \/ \E f \in fetches : HistoryStoreGet(f)
    \/ \E f \in fetches : historyFulfilled(f)
    \/ \E f \in fetches : historyRejected(f)

SpecQuery == InitQuery /\ [][NextQuery]_vars

\* Spec with every issued search request eventually resolving: the endpoint
\* answers or fails every request on the wire, and the event loop runs the
\* continuation of every settled call (App.js:68-78).
SearchResolves ==
    /\ WF_vars(\E r \in requests : SearchEndpoint(r))
    /\ WF_vars(\E r \in requests : searchFulfilled(r))
    /\ WF_vars(\E r \in requests : searchRejected(r))
    /\ WF_vars(\E r \in requests : searchUnreadable(r))

SpecLive == Init /\ [][Next]_vars /\ SearchResolves

\* The session with the sidebar's Clear button in use: the state after
\* mounting, the searches and edits of Next, and clearHistory with the
\* delete-all call it makes.
InitHistory ==
    /\ query = <<>>
    /\ author = <<>>
    /\ venue = <<>>
    /\ yearFrom = <<>>
    /\ yearTo = <<>>
    /\ searchResults = <<>>
    /\ loading = FALSE
    /\ searchHistory = <<>>
    /\ totalCount = 0
    /\ queryInfo = Null
    /\ alerts = 0
    /\ submitsLeft = MaxSubmits
    /\ clearsLeft = MaxClears
    /\ deletes = {}
    /\ issued = 0
    /\ requests = {}
    /\ histIssued = 1
    /\ fetches = {HistoryCall(1)}
    /\ store = <<0>>

NextHistory ==
    \/ \E v \in QueryInputs : setQuery(v)
    \/ handleSearch
    \/ \E r \in requests : SearchEndpoint(r)
    \/ \E r \in requests : searchFulfilled(r)
    \/ \E r \in requests : searchRejected(r)
    \/ \E r \in requests : searchUnreadable(r)
    \/ \E f \in fetches : HistoryStoreGet(f)
    \/ \E f \in fetches : historyFulfilled(f)
    \/ \E f \in fetches : historyRejected(f)
    \/ clearHistory
    \/ \E d \in deletes : HistoryStoreDelete(d)
    \/ \E d \in deletes : clearFulfilled(d)
    \/ \E d \in deletes : clearRejected(d)

SpecHistory == InitHistory /\ [][NextHistory]_vars

\* The form submitting although the button is disabled.
handleSubmitAlways ==
    /\ query # <<>>
    /\ handleSearch

\* A submit made through the form (App.js:143-157): a click on the submit
\* button, or Enter in the query field, which goes through the same button.
\* The button is disabled while loading (App.js:156) and the query field is
\* required (App.js:151), so the browser dispatches the submit event to
\* handleSearch only when the flag is clear and the field is not empty.
handleSubmit ==
    /\ ~loading
    /\ query # <<>>
    /\ handleSearch

\* The session driven through the rendered controls only: the state after
\* mounting, edits of the query, submits through the form and clicks on Clear.
NextUI ==
    \/ \E v \in QueryInputs : setQuery(v)
    \/ handleSubmit
    \/ \E r \in requests : SearchEndpoint(r)
    \/ \E r \in requests : searchFulfilled(r)
    \/ \E r \in requests : searchRejected(r)
    \/ \E r \in requests : searchUnreadable(r)
    \/ \E f \in fetches : HistoryStoreGet(f)
    \/ \E f \in fetches : historyFulfilled(f)
    \/ \E f \in fetches : historyRejected(f)
    \/ clearHistory
    \/ \E d \in deletes : HistoryStoreDelete(d)
    \/ \E d \in deletes : clearFulfilled(d)
    \/ \E d \in deletes : clearRejected(d)

SpecUI == InitHistory /\ [][NextUI]_vars

\* The session with responses that carry papers: the state after mounting,
\* one query typed, and the result cards computed from what is on display.
InitRender ==
    /\ query = <<>>
    /\ author = <<>>
    /\ venue = <<>>
    /\ yearFrom = <<>>
    /\ yearTo = <<>>
    /\ searchResults = <<>>
    /\ loading = FALSE
    /\ searchHistory = <<>>
    /\ totalCount = 0
    /\ queryInfo = Null
    /\ alerts = 0
    /\ submitsLeft = MaxQuerySubmits
    /\ clearsLeft = 0
    /\ deletes = {}
    /\ issued = 0
    /\ requests = {}
    /\ histIssued = 1
    /\ fetches = {HistoryCall(1)}
    /\ store = <<0>>

NextRender ==
    \/ \E v \in QueryInputs : setQuery(v)
    \/ handleSearch
    \/ \E r \in requests : PaperEndpoint(r)
    \/ \E r \in requests : searchFulfilled(r)
    \/ \E r \in requests : searchRejected(r)
    \/ \E r \in requests : searchUnreadable(r)
    \/ \E f \in fetches : HistoryStoreGet(f)
    \/ \E f \in fetches : historyFulfilled(f)
    \/ \E f \in fetches : historyRejected(f)

SpecRender == InitRender /\ [][NextRender]_vars

-----------------------------------------------------------------------------
(* Vocabulary of the properties.  These are stated on the characters of    *)
(* the fields and on the calls in flight, not through the operators of     *)
(* handleSearch.                                                           *)

\* s is empty or made of whitespace only.
IsBlank(s) == \A i \in 1..Len(s) : s[i] \in Whitespace

\* t is s without its leading and trailing whitespace.
IsTrimOf(t, s) ==
    /\ t = <<>> \/ (t[1] \notin Whitespace /\ t[Len(t)] \notin Whitespace)
    /\ \E i, j \in 0..Len(s) :
          /\ i + j <= Len(s)
          /\ t = SubSeq(s, i + 1, Len(s) - j)
          /\ \A k \in 1..i : s[k] \in Whitespace
          /\ \A k \in (Len(s) - j + 1)..Len(s) : s[k] \in Whitespace

\* s is a decimal integer: an optional sign, then digits only.
IsNumeric(s) ==
    LET u == IF s # <<>> /\ s[1] \in {"-", "+"} THEN Tail(s) ELSE s
    IN  u # <<>> /\ \A i \in 1..Len(u) : u[i] \in DigitChars

\* A year field that is filled in and is not a number.
HasInvalidYear ==
    \E y \in {yearFrom, yearTo} : y # <<>> /\ ~IsNumeric(y)

\* This step is a submit event handled by handleSearch.
SubmitStep == submitsLeft' # submitsLeft

\* This step runs the continuation of search call r (its response or its
\* failure is handled).
Resolves(r) == r \in requests /\ r \notin requests'

\* Search call r is not the most recently issued one.
IsStale(r) == r.id < issued

\* The search calls not yet taken by the endpoint: the requests on the wire.
OnTheWire == {r \in requests : r.stage = "sent"}

-----------------------------------------------------------------------------
(* C1: once every search request issued has resolved, all of them          *)
(* successfully, the displayed result set (papers, totalCount, queryInfo)  *)
(* is the one of the most recently issued request, whatever the order the  *)
(* responses arrived in: a response of an earlier request that arrives     *)
(* after the later one's does not replace it.                              *)
C1_LatestRequestWins ==
    (issued >= 1 /\ requests = {} /\ alerts = 0)
        => /\ searchResults = ResultSet(issued).papers
           /\ totalCount = ResultSet(issued).total_count
           /\ queryInfo = ResultSet(issued).query_info

(* C2: a successful response to a request that is not the most recently    *)
(* issued one is discarded: the display and the loading flag are left      *)
(* unchanged and no history fetch is issued.                               *)
C2_StaleSuccessDiscarded ==
    [][\A r \in requests :
          (r.stage = "ok" /\ IsStale(r) /\ Resolves(r))
              => UNCHANGED <<display, loading, histIssued, fetches>>]_vars

(* C3: the failure of a request that is not the most recently issued one   *)
(* is discarded: no failure is shown and the session stays Loading while   *)
(* the most recently issued request is unresolved.                         *)
C3_StaleFailureDiscarded ==
    [][\A r \in requests :
          (r.stage = "error" /\ IsStale(r) /\ Resolves(r))
              => /\ alerts' = alerts
                 /\ (\E l \in requests' : l.id = issued) => loading']_vars

(* C4: a submit whose query text is empty or whitespace-only issues no     *)
(* search request and no history request and leaves the loading flag, the  *)
(* display and the history cache unchanged.                                *)
C4_BlankSubmitIsIgnored ==
    [][(SubmitStep /\ IsBlank(query))
          => UNCHANGED <<loading, display, searchHistory, issued, requests,
                         histIssued, fetches>>]_vars

\* A blank submit has happened: more submit events than requests issued,
\* one of them while a search was loading.
C4_Witness ==
    /\ IsBlank(query)
    /\ MaxSubmits - submitsLeft > issued
    /\ loading /\ requests # {}

C6_YearRangeOrdered ==
    \A r \in OnTheWire :
        (r.body.year_from.type = "number" /\ r.body.year_to.type = "number")
            => r.body.year_from.value <= r.body.year_to.value

(* C7: the payload of every request sent is the canonical form of the      *)
(* draft: query is the trimmed text and is not empty, author and venue     *)
(* are the trimmed text, or null (never the empty string) when blank,      *)
(* year_from and year_to are null when their field is empty, limit is 20.  *)
(* (The draft does not change in SpecQuery, so the draft of a request on   *)
(* the wire is the current one.)                                           *)
C7_PayloadIsCanonical ==
    \A r \in OnTheWire :
        /\ r.body.query.type = "string"
        /\ r.body.query.value # <<>>
        /\ IsTrimOf(r.body.query.value, query)
        /\ IF IsBlank(author) THEN r.body.author = Null
           ELSE /\ r.body.author.type = "string"
                /\ IsTrimOf(r.body.author.value, author)
        /\ IF IsBlank(venue) THEN r.body.venue = Null
           ELSE /\ r.body.venue.type = "string"
                /\ IsTrimOf(r.body.venue.value, venue)
        /\ yearFrom = <<>> => r.body.year_from = Null
        /\ yearTo = <<>> => r.body.year_to = Null
        /\ r.body.limit = Num(20)

\* A request on the wire built from a padded query, a whitespace-only author,
\* a padded venue and one empty year field.
C7_Witness ==
    /\ OnTheWire # {}
    /\ Len(query) > 1 /\ query[1] \in Whitespace
    /\ author # <<>> /\ IsBlank(author)
    /\ ~IsBlank(venue) /\ venue[1] \in Whitespace
    /\ yearFrom = <<>> /\ yearTo # <<>>

C9_LatestSuccessShown ==
    [][\A r \in requests :
          (r.stage = "ok" /\ ~IsStale(r) /\ Resolves(r))
              => /\ ~loading'
                 /\ searchResults' = ResultSet(r.id).papers
                 /\ totalCount' = ResultSet(r.id).total_count
                 /\ queryInfo' = ResultSet(r.id).query_info
                 /\ histIssued' = histIssued + 1
                 /\ fetches \subseteq fetches'
                 /\ Cardinality(fetches' \ fetches) = 1]_vars

\* The latest request's response is on display and the refresh it started is
\* in flight.
C9_Witness ==
    /\ issued >= 1 /\ ~loading
    /\ queryInfo = ResultSet(issued).query_info
    /\ \E f \in fetches : f.id = histIssued /\ f.id > 1

(* C10: when the most recently issued request fails, the loading flag is   *)
(* cleared and a failure is shown to the user, no history fetch is issued  *)
(* and no search request is sent; search requests are sent by submit       *)
(* events only (no automatic retry).                                       *)
C10_LatestFailureShown ==
    /\ [][\A r \in requests :
             (r.stage = "error" /\ ~IsStale(r) /\ Resolves(r))
                 => /\ ~loading'
                    /\ alerts' = alerts + 1
                    /\ UNCHANGED <<histIssued, fetches, issued>>
                    /\ requests' = requests \ {r}]_vars
    /\ [][issued' # issued => SubmitStep]_vars

\* The only request issued has failed: an alert was raised, nothing is in
\* flight, the session is no longer Loading and no refresh was started.
C10_Witness ==
    /\ issued = 1 /\ alerts = 1 /\ ~loading
    /\ requests = {} /\ histIssued = 1


(* C11: a history refresh that fails leaves the cached history as it was,  *)
(* changes nothing of the search session (loading, papers, totalCount,     *)
(* queryInfo) and raises no alert: the failed fetch is only dropped.       *)
C11_FailedRefreshChangesNothing ==
    [][\A f \in fetches :
          (f.stage = "error" /\ f \notin fetches')
              => /\ UNCHANGED <<searchHistory, loading, display, alerts>>
                 /\ UNCHANGED <<issued, requests, histIssued>>
                 /\ fetches' = fetches \ {f}]_vars

\* The mount's refresh has failed while a search was loading: the store
\* holds an entry, the cache is still empty and the session still Loading.
C11_Witness ==
    /\ histIssued = 1 /\ fetches = {}
    /\ searchHistory = <<>> /\ store # <<>>
    /\ loading /\ alerts = 0


(* C12: every clear sends one delete-all request, and once that request    *)
(* has resolved, acknowledged or rejected, a history refresh is started.   *)
C12_ClearAlwaysRefreshes ==
    /\ [][clearsLeft' # clearsLeft
             => /\ deletes \subseteq deletes'
                /\ \E d \in deletes' \ deletes :
                       d.stage = "sent" /\ deletes' = deletes \cup {d}]_vars
    /\ [][\A d \in deletes :
             (d.stage \in {"ok", "error"} /\ d \notin deletes')
                 => /\ histIssued' = histIssued + 1
                    /\ \E f \in fetches' \ fetches : f.stage = "sent"]_vars


(* C13: once a clear whose delete was acknowledged has been handled, and   *)
(* as long as nothing has been written to the store since (it is still     *)
(* empty), the cached history is empty: no entry from before the clear is  *)
(* on display, however the fetches in flight resolve.                      *)
C13_NoEntryFromBeforeTheClear ==
    (store = <<>> /\ deletes = {}) => searchHistory = <<>>


Chars(s) == {s[i] : i \in DOMAIN s}
Displayed == {searchResults[i] : i \in DOMAIN searchResults}

(* C15: on every result card the author line is "Unknown authors" for an   *)
(* absent or empty author list, the single name for one author, the two    *)
(* names joined by " and " for two, and the first two names joined by ", " *)
(* and followed by " et al." for three or more, with no character of a     *)
(* later author's name in it.                                              *)
C15_FormatAuthors ==
    \A i \in DOMAIN searchResults :
        LET authors == searchResults[i].authors
            shown == Cards[i].authors
            names == IF authors = Null THEN <<>> ELSE authors.items
        IN  /\ shown.type = "string"
            /\ Len(names) = 0 => shown.value = UnknownAuthors
            /\ Len(names) = 1 => shown.value = names[1].value
            /\ Len(names) = 2 =>
                   shown.value = names[1].value \o AndSep \o names[2].value
            /\ Len(names) >= 3 =>
                   /\ shown.value =
                          names[1].value \o CommaSep \o names[2].value \o EtAl
                   /\ \A k \in 3..Len(names) :
                          Chars(names[k].value) \cap Chars(shown.value) = {}

\* A paper with four authors is on display.
C15_Witness ==
    \E paper \in Displayed :
        paper.authors # Null /\ Len(paper.authors.items) = 4


\* Values of maxLength the claims on truncateAbstract are checked for: the
\* default, and small ones that every non-empty abstract exceeds.
MaxLengthInputs == {0, 2, DefaultMaxLength}
Abstracts == {paper.abstract : paper \in Displayed}
IsLong(abstract) == ~IsFalsy(abstract) /\ Len(abstract.value) > DefaultMaxLength

(* C16: truncateAbstract returns an absent abstract, and one of at most    *)
(* maxLength characters, unchanged; for a longer one it returns a string   *)
(* of exactly maxLength + 3 characters whose first maxLength characters    *)
(* are the input's and whose last three are "...".                         *)
C16_TruncateAbstract ==
    \A abstract \in Abstracts : \A maxLength \in MaxLengthInputs :
        LET result == truncateAbstract(abstract, maxLength)
        IN  IF abstract = Null THEN result = Null
            ELSE IF Len(abstract.value) <= maxLength THEN result = abstract
            ELSE /\ result.type = "string"
                 /\ Len(result.value) = maxLength + 3
                 /\ \A i \in 1..maxLength : result.value[i] = abstract.value[i]
                 /\ \A i \in 1..3 : result.value[maxLength + i] = "."

\* An abstract of one character more than the default maximum is on display,
\* its card showing 303 characters.
C16_Witness ==
    \E i \in DOMAIN searchResults :
        /\ ~IsFalsy(searchResults[i].abstract)
        /\ Len(searchResults[i].abstract.value) = DefaultMaxLength + 1
        /\ Len(Cards[i].abstract.value) = DefaultMaxLength + 3

(* C20: truncateAbstract is idempotent: truncating its own result with the *)
(* same maxLength gives that result again, for absent, short and long      *)
(* abstracts, the ones that end in full stops included.                    *)
C20_TruncateIdempotent ==
    \A abstract \in Abstracts : \A maxLength \in MaxLengthInputs :
        truncateAbstract(truncateAbstract(abstract, maxLength), maxLength)
            = truncateAbstract(abstract, maxLength)

\* A long abstract made of full stops is on display; its truncation differs
\* from it and is itself longer than the default maximum.
C20_Witness ==
    \E abstract \in Abstracts :
        /\ IsLong(abstract)
        /\ abstract.value[1] = "."
        /\ truncateAbstract(abstract, DefaultMaxLength) # abstract
        /\ IsLong(truncateAbstract(abstract, DefaultMaxLength))


(* C17: when the last history operation in flight completes, with no       *)
(* search in flight either, the cached history equals the store's          *)
(* contents; in particular a fetch that resolves late does not replace a   *)
(* cache that equals the store by older data.                              *)
C17_CacheConvergesToStore ==
    [][\A f \in fetches :
          (/\ f.stage = "ok" /\ f \notin fetches'
           /\ fetches' = {} /\ deletes' = {} /\ requests' = {}
           /\ searchHistory = store)
              => searchHistory' = store']_vars


\* The display is as initialised, or all of it is the n-th response.
DisplayIsInitial == searchResults = <<>> /\ totalCount = 0 /\ queryInfo = Null
DisplayIsResponse(n) ==
    /\ searchResults = ResultSet(n).papers
    /\ totalCount = ResultSet(n).total_count
    /\ queryInfo = ResultSet(n).query_info

C19_RefreshDoesNotBlock ==
    /\ [][\A r \in requests :
             (r.stage = "ok" /\ Resolves(r))
                 => /\ ~loading'
                    /\ \E f \in fetches' :
                           f.id = histIssued' /\ f.stage = "sent"]_vars
    /\ [][(SubmitStep /\ ~IsBlank(query) /\ fetches # {})
             => /\ loading'
                /\ fetches' = fetches
                /\ \E q \in requests' \ requests :
                       /\ q.id = issued + 1 /\ q.stage = "sent"
                       /\ requests' = requests \cup {q}]_vars

\* The first search has succeeded and the refresh it started is in flight;
\* the second request was submitted after that and is loading.
C19_Witness ==
    /\ loading /\ issued = 2
    /\ DisplayIsResponse(1)
    /\ \E f \in fetches : f.id = 2
    /\ \E r \in requests : r.id = 2


(* C21: the session does not stay in Loading forever: provided every       *)
(* issued search request eventually resolves, a set loading flag is        *)
(* eventually cleared, and the flag is clear whenever no search request is *)
(* in flight.                                                              *)
C21_LoadingEnds ==
    /\ [](requests = {} => ~loading)
    /\ (loading ~> ~loading)

\* Two requests were issued, the first succeeded and the second did not, and
\* nothing is in flight any more: the flag is clear.
C21_Witness ==
    /\ issued = 2 /\ requests = {} /\ ~loading
    /\ alerts = 1 /\ DisplayIsResponse(1) /\ submitsLeft = 0


(* C22: through the form at most one search request is in flight: a submit *)
(* is dispatched only while the loading flag is clear, and while the flag  *)
(* is set the submit is disabled but the query can still be edited and,    *)
(* the cache not being empty, the history cleared.                         *)
C22_OneRequestThroughTheForm ==
    /\ Cardinality(requests) <= 1
    /\ loading <=> requests # {}
    /\ loading =>
          /\ ~ENABLED handleSubmit
          /\ ENABLED (\E v \in QueryInputs : setQuery(v))
          /\ (searchHistory # <<>> /\ clearsLeft > 0) => ENABLED clearHistory

\* A request is loading and the user, who could submit the query once more
\* were the button enabled, has clicked Clear in the meantime.
C22_Witness ==
    /\ loading /\ Cardinality(requests) = 1
    /\ submitsLeft > 0 /\ ~IsBlank(query)
    /\ deletes # {}

=============================================================================
